---- MODULE Spec2Model ----
(***************************************************************************)
(* Model of prow/prstatus/prstatus.go: the /pr-status request handler      *)
(* (DashboardAgent.HandlePrStatus), the paginated search                   *)
(* (DashboardAgent.QueryPullRequests) and the query builder                *)
(* (ConstructSearchQuery, queryConstrainsRepos).                           *)
(*                                                                         *)
(* Go strings are sequences of one-character strings, so that Split,       *)
(* HasPrefix, Contains and concatenation are computed as the Go library    *)
(* computes them.  Spec is one request through the handler, with the       *)
(* PullRequestQueryHandler seen through its interface; SpecQuery is one    *)
(* call of DashboardAgent.QueryPullRequests against a remote githubClient; *)
(* SpecBuilder is calls of ConstructSearchQuery and queryConstrainsRepos.  *)
(***************************************************************************)
EXTENDS Integers, Sequences, FiniteSets, TLC

VARIABLES
    repos,        \* da.repos: the configured repositories
    req,          \* the request: the form's "query", the URL's "var", whether ParseForm succeeds
    session,      \* the session the cookie store returns for this request
    session0,     \* history: the session as it was when the request arrived
    saves,        \* history: the session snapshots session.Save has persisted
    saveResults,  \* history: whether each session.Save call succeeded
    getErr,       \* whether err of line 162 is not nil
    searchErr,    \* whether err of line 235 is not nil
    pc,           \* position of the handler
    getUserCalls, \* history: number of GetUser calls made
    userErr,      \* err of line 179
    user,         \* user of line 172
    data,         \* data of line 168
    cookies,      \* the cookies http.SetCookie put on the response
    query,        \* query of line 222
    queries,      \* history: the queries passed to queryHandler.QueryPullRequests
    status,       \* the response status (0: nothing written yet)
    body,         \* the chunks written to the response body
    errlog,       \* the entries da.log received at error level
    qpc,          \* position of QueryPullRequests
    qquery,       \* its query argument
    searchCursor, \* vars["searchCursor"]
    prs,          \* prs of line 261
    totalCost,    \* totalCost of line 266
    remaining,    \* remaining of line 267
    requests,     \* history: the variables of every ghc.Query call
    pages,        \* history: the successful responses received
    ret,          \* the returned ([]PullRequest, error)
    infolog,      \* the entries da.log received at info level
    blogin,       \* the login ConstructSearchQuery is called with
    bquery,       \* the q queryConstrainsRepos is called with
    builds,       \* history: the strings ConstructSearchQuery returned
    constrained   \* history: the booleans queryConstrainsRepos returned

hvars == <<repos, req, session, session0, saves, saveResults, getErr, searchErr, pc,
           getUserCalls, userErr, user, data, cookies, query, queries, status, body, errlog>>
qvars == <<qpc, qquery, searchCursor, prs, totalCost, remaining, requests, pages, ret,
           infolog>>
bvars == <<blogin, bquery, builds, constrained>>
vars == <<hvars, qvars, bvars>>

(***************************************************************************)
(* Bounds                                                                  *)
(***************************************************************************)
MaxPages == 3
MaxCalls == 2

(***************************************************************************)
(* Go strings and the strings package                                      *)
(***************************************************************************)
EmptyStr == <<>>

\* line 39
loginSession == "github_login"

\* strings.HasPrefix
HasPrefix(s, prefix) ==
    /\ Len(s) >= Len(prefix)
    /\ SubSeq(s, 1, Len(prefix)) = prefix

\* strings.Contains
Contains(s, substr) ==
    \E i \in 0..(Len(s) - Len(substr)) : SubSeq(s, i + 1, i + Len(substr)) = substr

\* index of the first occurrence of the character sep in s, 0 when there is none
RECURSIVE IndexFrom(_, _, _)
IndexFrom(s, sep, i) ==
    IF i > Len(s) THEN 0
    ELSE IF s[i] = sep THEN i
    ELSE IndexFrom(s, sep, i + 1)

\* strings.Split(s, sep) for a one-character sep: every sep cuts, empty pieces are kept
RECURSIVE Split(_, _)
Split(s, sep) ==
    LET i == IndexFrom(s, sep, 1) IN
    IF i = 0 THEN <<s>>
    ELSE <<SubSeq(s, 1, i - 1)>> \o Split(SubSeq(s, i + 1, Len(s)), sep)

\* strings.Join
RECURSIVE Join(_, _)
Join(elems, sep) ==
    IF Len(elems) = 0 THEN EmptyStr
    ELSE IF Len(elems) = 1 THEN elems[1]
    ELSE elems[1] \o sep \o Join(Tail(elems), sep)

Space == <<" ">>
Str401 == <<"4", "0", "1">>
StrOrg == <<"o", "r", "g", ":">>
StrRepo == <<"r", "e", "p", "o", ":">>
StrIsPr == <<"i", "s", ":", "p", "r">>
StrStateOpen == <<"s", "t", "a", "t", "e", ":", "o", "p", "e", "n">>
StrAuthor == <<"a", "u", "t", "h", "o", "r", ":">>
Quote == <<"\"">>

(***************************************************************************)
(* The values a request can carry and the collaborators can return         *)
(***************************************************************************)
RepoAB == <<"a", "/", "b">>
RepoCD == <<"c", "/", "d">>
\* the repository lists a DashboardAgent is constructed with (line 142)
RepoConfigs == {<<>>, <<RepoAB>>, <<RepoAB, RepoCD>>}

LoginK == <<"k">>
LoginO == <<"o">>
Logins == {LoginK, LoginO}

\* values of the form's "query" parameter; EmptyStr is what Form.Get gives when
\* the parameter is absent
QueryParams ==
    { EmptyStr,
      StrIsPr,
      StrRepo \o <<"x">>,
      StrOrg \o <<"k">>,
      <<"n", "o">> \o StrRepo \o <<"x">>,
      StrIsPr \o Space \o StrOrg \o <<"k">>,
      StrIsPr \o <<"\t">> \o StrRepo \o <<"x">>,
      <<"x">> \o Space \o Space \o StrRepo \o <<"y">> }

\* values of the URL's "var" parameter
VarParams == {EmptyStr, <<"d">>}

\* the http.Request as the handler reads it
Requests == [query : QueryParams, var : VarParams, parseFormOK : BOOLEAN]

\* session.Options.MaxAge as the cookie store is configured
SessionMaxAges == {0, 3600}

\* the session record: Values[tokenKey] asserted to *oauth2.Token (ok), token.Valid(),
\* Options.MaxAge and Values[loginKey]
Sessions ==
    { s \in [tokenOk : BOOLEAN, tokenValid : BOOLEAN, MaxAge : SessionMaxAges,
             hasLogin : BOOLEAN, login : Logins \cup {EmptyStr}] :
        /\ (s.tokenValid => s.tokenOk)
        /\ (s.hasLogin <=> s.login # EmptyStr)
        /\ (s.hasLogin => s.login = LoginO) }

NoError == [isNil |-> TRUE, auth |-> FALSE, text |-> EmptyStr]
NilUser == [isNil |-> TRUE, Login |-> EmptyStr]

\* err.Error() of the failures GetUser can report: auth says whether the remote
\* service refused the credential (an HTTP 401 response, whose text go-github
\* renders with the status code), text is err.Error()
ErrBadCredentials == [isNil |-> FALSE, auth |-> TRUE, text |-> Str401 \o <<" ", "B", "a", "d">>]
ErrBadGateway == [isNil |-> FALSE, auth |-> FALSE, text |-> <<"5", "0", "2">>]
\* a connection reset on local port 40112
ErrConnReset == [isNil |-> FALSE, auth |-> FALSE, text |-> <<":", "4", "0", "1", "1", "2", " ", "r", "s", "t">>]
GetUserErrors == {ErrBadCredentials, ErrBadGateway, ErrConnReset}

\* the (user, err) pairs GetUser returns: a user and no error, or no user and an error
GetUserResults ==
    {[user |-> [isNil |-> FALSE, Login |-> l], err |-> NoError] : l \in Logins}
    \cup {[user |-> NilUser, err |-> e] : e \in GetUserErrors}

\* err.Error() of a cookie store failure and of a failed search
StoreErrText == <<"s", "t", "o", "r", "e">>
QueryErrText == <<"E", "O", "F">>

\* PullRequest (lines 89-117): its number, and whether the githubql.ID values it
\* carries (interface values) are ones encoding/json can encode
PR1 == [Number |-> 1, IDEncodable |-> TRUE]
PR2 == [Number |-> 2, IDEncodable |-> TRUE]
PR3 == [Number |-> 3, IDEncodable |-> FALSE]

\* what a PullRequestQueryHandler can return (lines 63-65)
QueryHandlerResults ==
    [prs : {<<>>, <<PR1>>, <<PR2, PR1>>, <<PR3>>}, failed : BOOLEAN]

\* line 290 with the quotes left out of the format
RepoToken_m(v) == StrRepo \o v

(***************************************************************************)
(* Query Builder                                                           *)
(***************************************************************************)
\* fmt.Sprintf("repo:\"%s\"", v)
RepoToken(v) == StrRepo \o Quote \o v \o Quote

RECURSIVE RepoTokens(_)
\* the tokens the loop of lines 289-291 appends, in da.repos order
RepoTokens(rs) ==
    IF Len(rs) = 0 THEN <<>>
    ELSE <<RepoToken(Head(rs))>> \o RepoTokens(Tail(rs))

\* DashboardAgent.ConstructSearchQuery
ConstructSearchQuery(login) ==
    Join(<<StrIsPr, StrStateOpen, StrAuthor \o login>> \o RepoTokens(repos), Space)

\* queryConstrainsRepos
queryConstrainsRepos(q) ==
    LET tkns == Split(q, " ") IN
    \E i \in 1..Len(tkns) : HasPrefix(tkns[i], StrOrg) \/ HasPrefix(tkns[i], StrRepo)

\* lines 223-227: the form's query replaces the built one when the form parses and
\* the parameter is not empty
OverrideQuery(built, r) ==
    IF r.parseFormOK /\ r.query # EmptyStr THEN r.query ELSE built

RECURSIVE AppendRepos(_, _)
\* the loop of lines 231-233: query += fmt.Sprintf(" repo:\"%s\"", v)
AppendRepos(q, rs) ==
    IF Len(rs) = 0 THEN q
    ELSE AppendRepos(q \o Space \o RepoToken(Head(rs)), Tail(rs))

\* lines 230-234 left out
ScopeQuery_unscoped(q) == q

\* lines 230-234 without the test of line 230
ScopeQuery_m(q) == AppendRepos(q, repos)

\* lines 230-234
ScopeQuery(q) ==
    IF ~queryConstrainsRepos(q) THEN AppendRepos(q, repos) ELSE q

(***************************************************************************)
(* The request handler                                                     *)
(***************************************************************************)
ZeroData == [Login |-> FALSE, PullRequests |-> <<>>]

\* line 181: strings.Contains(err.Error(), "401")
IsInvalidToken(err) == Contains(err.text, Str401)

\* line 183 with the session's MaxAge left as it was
InvalidateSession_m(s) == s

\* line 183
InvalidateSession(s) == [s EXCEPT !.MaxAge = -1]

\* the cookie of lines 189-195; Expires is in hours from time.Now()
ExpiredLoginCookie ==
    [Name |-> loginSession, Value |-> EmptyStr, Path |-> "/", Expires |-> -24,
     MaxAge |-> -1, Secure |-> TRUE]

\* lines 208-214 with a one-day expiry
LoginCookie_m(login) ==
    [Name |-> loginSession, Value |-> login, Path |-> "/", Expires |-> 24,
     MaxAge |-> 0, Secure |-> TRUE]

\* the cookie of lines 208-214; Expires is in hours from time.Now()
LoginCookie(login) ==
    [Name |-> loginSession, Value |-> login, Path |-> "/", Expires |-> 24 * 30,
     MaxAge |-> 0, Secure |-> TRUE]

\* line 205 left out
LoggedIn_m(d) == d

\* line 205
LoggedIn(d) == [d EXCEPT !.Login = TRUE]

\* line 215 writing under tokenKey: the stored token is replaced by a string
StoreLogin_m(s, login) == [s EXCEPT !.tokenOk = FALSE, !.tokenValid = FALSE]

\* line 215: session.Values[loginKey] = login
StoreLogin(s, login) == [s EXCEPT !.hasLogin = TRUE, !.login = login]

\* line 240
WithPullRequests(d, list) == [d EXCEPT !.PullRequests = list]

\* json.Marshal(data), line 243: nil bytes and an error when a value cannot be encoded
Marshal(d) ==
    IF \A i \in 1..Len(d.PullRequests) : d.PullRequests[i].IDEncodable
    THEN [isNil |-> FALSE, json |-> d]
    ELSE [isNil |-> TRUE, json |-> ZeroData]

NoBytes == [isNil |-> TRUE, json |-> ZeroData]

\* a chunk written to the response body
ErrorChunk(action, errText) ==
    [kind |-> "error", format |-> "500 Internal server error %s: %v\n",
     action |-> action, arg |-> errText, bytes |-> NoBytes]
TextChunk(format, arg) ==
    [kind |-> "text", format |-> format, action |-> "", arg |-> arg, bytes |-> NoBytes]
BytesChunk(b) ==
    [kind |-> "bytes", format |-> "", action |-> "", arg |-> EmptyStr, bytes |-> b]

\* serverError, lines 156-160
serverError(action, errText) ==
    /\ errlog' = Append(errlog, [format |-> "Error %s.", action |-> action, err |-> errText])
    /\ status' = (IF status = 0 THEN 500 ELSE status)
    /\ body' = Append(body, ErrorChunk(action, errText))
    /\ pc' = "done"

\* lines 248-254
ResponseChunks(v, marshaledData) ==
    IF v # EmptyStr
    THEN <<TextChunk("var %s = ", v), BytesChunk(marshaledData), TextChunk(";", EmptyStr)>>
    ELSE <<BytesChunk(marshaledData)>>

\* line 173 without the token.Valid() test
HasValidToken_m(s) == s.tokenOk

\* line 173: ok && token.Valid()
HasValidToken(s) == s.tokenOk /\ s.tokenValid

\* lines 162-170
GetSession ==
    /\ pc = "start"
    /\ \E failed \in BOOLEAN :
         /\ getErr' = failed
         /\ IF failed
            THEN /\ serverError("Error with getting git token session.", StoreErrText)
                 /\ UNCHANGED data
            ELSE /\ data' = ZeroData
                 /\ pc' = "validate"
                 /\ UNCHANGED <<status, body, errlog>>
    /\ UNCHANGED <<repos, req, session, session0, saves, saveResults, searchErr,
                   getUserCalls, userErr, user, cookies, query, queries>>
    /\ UNCHANGED <<qvars, bvars>>

\* line 173, the condition false: no token, or a token that is not Valid()
SkipValidation ==
    /\ pc = "validate"
    /\ ~HasValidToken(session)
    /\ pc' = "validated"
    /\ UNCHANGED <<repos, req, session, session0, saves, saveResults, getErr, searchErr,
                   getUserCalls, userErr, user, data, cookies, query, queries, status,
                   body, errlog>>
    /\ UNCHANGED <<qvars, bvars>>

\* lines 173-180
GetUser ==
    /\ pc = "validate"
    /\ HasValidToken(session)
    /\ getUserCalls' = getUserCalls + 1
    /\ \E r \in GetUserResults :
         /\ user' = r.user
         /\ userErr' = r.err
         /\ pc' = (IF r.err.isNil THEN "validated" ELSE "failed")
    /\ UNCHANGED <<repos, req, session, session0, saves, saveResults, getErr, searchErr,
                   data, cookies, query, queries, status, body, errlog>>
    /\ UNCHANGED <<qvars, bvars>>

\* lines 181-195 with the login cookie expired before the session is saved
InvalidateTokenSession_m ==
    /\ pc = "failed"
    /\ IsInvalidToken(userErr)
    /\ session' = InvalidateSession(session)
    /\ cookies' = Append(cookies, ExpiredLoginCookie)
    /\ \E ok \in BOOLEAN :
         /\ saveResults' = Append(saveResults, ok)
         /\ IF ok
            THEN /\ saves' = Append(saves, session')
                 /\ pc' = "validated"
                 /\ UNCHANGED <<status, body, errlog>>
            ELSE /\ serverError("Error with saving invalidated session", StoreErrText)
                 /\ UNCHANGED saves
    /\ UNCHANGED <<repos, req, session0, getErr, searchErr, getUserCalls, userErr, user,
                   data, query, queries>>
    /\ UNCHANGED <<qvars, bvars>>

\* lines 181-187
InvalidateTokenSession ==
    /\ pc = "failed"
    /\ IsInvalidToken(userErr)
    /\ session' = InvalidateSession(session)
    /\ \E ok \in BOOLEAN :
         /\ saveResults' = Append(saveResults, ok)
         /\ IF ok
            THEN /\ saves' = Append(saves, session')
                 /\ pc' = "expire"
                 /\ UNCHANGED <<status, body, errlog>>
            ELSE /\ serverError("Error with saving invalidated session", StoreErrText)
                 /\ UNCHANGED saves
    /\ UNCHANGED <<repos, req, session0, getErr, searchErr, getUserCalls, userErr, user,
                   data, cookies, query, queries>>
    /\ UNCHANGED <<qvars, bvars>>

\* lines 188-195
InvalidateLoginCookie ==
    /\ pc = "expire"
    /\ cookies' = Append(cookies, ExpiredLoginCookie)
    /\ pc' = "validated"
    /\ UNCHANGED <<repos, req, session, session0, saves, saveResults, getErr, searchErr,
                   getUserCalls, userErr, user, data, query, queries, status, body, errlog>>
    /\ UNCHANGED <<qvars, bvars>>

\* lines 196-199
GetUserError ==
    /\ pc = "failed"
    /\ ~IsInvalidToken(userErr)
    /\ serverError("Error with getting user login", userErr.text)
    /\ UNCHANGED <<repos, req, session, session0, saves, saveResults, getErr, searchErr,
                   getUserCalls, userErr, user, data, cookies, query, queries>>
    /\ UNCHANGED <<qvars, bvars>>

\* line 203, the condition false
NoUser ==
    /\ pc = "validated"
    /\ user.isNil
    /\ pc' = "respond"
    /\ UNCHANGED <<repos, req, session, session0, saves, saveResults, getErr, searchErr,
                   getUserCalls, userErr, user, data, cookies, query, queries, status,
                   body, errlog>>
    /\ UNCHANGED <<qvars, bvars>>

\* lines 203-219 without the return of line 218
SaveLogin_m ==
    /\ pc = "validated"
    /\ ~user.isNil
    /\ data' = LoggedIn(data)
    /\ cookies' = Append(cookies, LoginCookie(user.Login))
    /\ session' = StoreLogin(session, user.Login)
    /\ \E ok \in BOOLEAN :
         /\ saveResults' = Append(saveResults, ok)
         /\ pc' = "construct"
         /\ IF ok
            THEN /\ saves' = Append(saves, session')
                 /\ UNCHANGED <<status, body, errlog>>
            ELSE /\ errlog' = Append(errlog, [format |-> "Error %s.",
                                              action |-> "Save oauth session",
                                              err |-> StoreErrText])
                 /\ status' = (IF status = 0 THEN 500 ELSE status)
                 /\ body' = Append(body, ErrorChunk("Save oauth session", StoreErrText))
                 /\ UNCHANGED saves
    /\ UNCHANGED <<repos, req, session0, getErr, searchErr, getUserCalls, userErr, user,
                   query, queries>>
    /\ UNCHANGED <<qvars, bvars>>

\* lines 203-219
SaveLogin ==
    /\ pc = "validated"
    /\ ~user.isNil
    /\ data' = LoggedIn(data)
    /\ cookies' = Append(cookies, LoginCookie(user.Login))
    /\ session' = StoreLogin(session, user.Login)
    /\ \E ok \in BOOLEAN :
         /\ saveResults' = Append(saveResults, ok)
         /\ IF ok
            THEN /\ saves' = Append(saves, session')
                 /\ pc' = "construct"
                 /\ UNCHANGED <<status, body, errlog>>
            ELSE /\ serverError("Save oauth session", StoreErrText)
                 /\ UNCHANGED saves
    /\ UNCHANGED <<repos, req, session0, getErr, searchErr, getUserCalls, userErr, user,
                   query, queries>>
    /\ UNCHANGED <<qvars, bvars>>

\* lines 220-234
ConstructQuery ==
    /\ pc = "construct"
    /\ query' = ScopeQuery(OverrideQuery(ConstructSearchQuery(user.Login), req))
    /\ pc' = "search"
    /\ UNCHANGED <<repos, req, session, session0, saves, saveResults, getErr, searchErr,
                   getUserCalls, userErr, user, data, cookies, queries, status, body,
                   errlog>>
    /\ UNCHANGED <<qvars, bvars>>

\* lines 235-241
Search ==
    /\ pc = "search"
    /\ queries' = Append(queries, query)
    /\ \E r \in QueryHandlerResults :
         /\ searchErr' = r.failed
         /\ IF r.failed
            THEN /\ serverError("Error with querying user data.", QueryErrText)
                 /\ UNCHANGED data
            ELSE /\ data' = WithPullRequests(data, r.prs)
                 /\ pc' = "respond"
                 /\ UNCHANGED <<status, body, errlog>>
    /\ UNCHANGED <<repos, req, session, session0, saves, saveResults, getErr,
                   getUserCalls, userErr, user, cookies, query>>
    /\ UNCHANGED <<qvars, bvars>>

\* lines 243-254
WriteResponse ==
    /\ pc = "respond"
    /\ LET marshaledData == Marshal(data) IN
         /\ errlog' = (IF marshaledData.isNil
                       THEN Append(errlog, [format |-> "Error with marshalling user data.",
                                            action |-> "", err |-> EmptyStr])
                       ELSE errlog)
         /\ body' = body \o ResponseChunks(req.var, marshaledData)
    /\ status' = (IF status = 0 THEN 200 ELSE status)
    /\ pc' = "done"
    /\ UNCHANGED <<repos, req, session, session0, saves, saveResults, getErr, searchErr,
                   getUserCalls, userErr, user, data, cookies, query, queries>>
    /\ UNCHANGED <<qvars, bvars>>

(***************************************************************************)
(* The paginator                                                           *)
(***************************************************************************)
NilCursor == [isNil |-> TRUE, val |-> EmptyStr]

\* line 281 left out: the cursor stays nil
NewString_m(v) == NilCursor

\* githubql.NewString, line 281
NewString(v) == [isNil |-> FALSE, val |-> v]

\* the searchQuery a successful ghc.Query fills in (lines 125-139)
SearchResponses ==
    [Nodes : {<<>>, <<PR1>>, <<PR2, PR3>>},
     HasNextPage : BOOLEAN,
     EndCursor : {<<"Y">>, <<"Z">>},
     Cost : {1, 2},
     Remaining : {5, 9}]

\* the query strings QueryPullRequests is called with
QueryArgs == {StrIsPr, StrIsPr \o Space \o StrOrg \o <<"k">>}

NoReturn == [prs |-> <<>>, failed |-> FALSE]

\* lines 262-265: the variables of a request
Variables(q, cursor) == [query |-> q, searchCursor |-> cursor]

\* line 273
AddCost(total, sq) == total + sq.Cost

\* line 274 written with += as line 273 is
LastRemaining_m(sq) == remaining + sq.Remaining

\* line 274
LastRemaining(sq) == sq.Remaining

\* lines 275-277 appending to a fresh slice on every page
AppendNodes_m(list, sq) == sq.Nodes

\* lines 275-277
AppendNodes(list, sq) == list \o sq.Nodes

\* line 271 returning the pull requests collected so far
FailedReturn_m == [prs |-> prs, failed |-> TRUE]

\* line 271
FailedReturn == [prs |-> <<>>, failed |-> TRUE]

\* line 284
Return(list) == [prs |-> list, failed |-> FALSE]

\* lines 261-267
QueryStart ==
    /\ qpc = "start"
    /\ prs' = <<>>
    /\ searchCursor' = NilCursor
    /\ totalCost' = 0
    /\ remaining' = 0
    /\ qpc' = "loop"
    /\ UNCHANGED <<qquery, requests, pages, ret, infolog>>
    /\ UNCHANGED <<hvars, bvars>>

\* lines 269-270: ghc.Query is called with vars
SendQuery ==
    /\ qpc = "loop"
    /\ Len(requests) < MaxPages
    /\ requests' = Append(requests, Variables(qquery, searchCursor))
    /\ qpc' = "await"
    /\ UNCHANGED <<qquery, searchCursor, prs, totalCost, remaining, pages, ret, infolog>>
    /\ UNCHANGED <<hvars, bvars>>

\* lines 270-272: ghc.Query returned an error
QueryFailed ==
    /\ qpc = "await"
    /\ ret' = FailedReturn
    /\ qpc' = "returned"
    /\ UNCHANGED <<qquery, searchCursor, prs, totalCost, remaining, requests, pages, infolog>>
    /\ UNCHANGED <<hvars, bvars>>

\* lines 273-282 with a guard that also stops on an end cursor equal to the one sent
ReceivePage_m ==
    /\ qpc = "await"
    /\ \E sq \in SearchResponses :
         /\ pages' = Append(pages, sq)
         /\ totalCost' = AddCost(totalCost, sq)
         /\ remaining' = LastRemaining(sq)
         /\ prs' = AppendNodes(prs, sq)
         /\ IF ~sq.HasNextPage \/ NewString(sq.EndCursor) = searchCursor
            THEN /\ qpc' = "finish"
                 /\ UNCHANGED searchCursor
            ELSE /\ searchCursor' = NewString(sq.EndCursor)
                 /\ qpc' = "loop"
    /\ UNCHANGED <<qquery, requests, ret, infolog>>
    /\ UNCHANGED <<hvars, bvars>>

\* lines 273-282: ghc.Query filled in sq
ReceivePage ==
    /\ qpc = "await"
    /\ \E sq \in SearchResponses :
         /\ pages' = Append(pages, sq)
         /\ totalCost' = AddCost(totalCost, sq)
         /\ remaining' = LastRemaining(sq)
         /\ prs' = AppendNodes(prs, sq)
         /\ IF ~sq.HasNextPage
            THEN /\ qpc' = "finish"
                 /\ UNCHANGED searchCursor
            ELSE /\ searchCursor' = NewString(sq.EndCursor)
                 /\ qpc' = "loop"
    /\ UNCHANGED <<qquery, requests, ret, infolog>>
    /\ UNCHANGED <<hvars, bvars>>

\* lines 283-284
QueryReturn ==
    /\ qpc = "finish"
    /\ infolog' = Append(infolog, [query |-> qquery, cost |-> totalCost,
                                   remaining |-> remaining])
    /\ ret' = Return(prs)
    /\ qpc' = "returned"
    /\ UNCHANGED <<qquery, searchCursor, prs, totalCost, remaining, requests, pages>>
    /\ UNCHANGED <<hvars, bvars>>

(***************************************************************************)
(* Specifications                                                          *)
(***************************************************************************)
HandlerIdle ==
    /\ session0 = session
    /\ saves = <<>>
    /\ saveResults = <<>>
    /\ getErr = FALSE
    /\ searchErr = FALSE
    /\ getUserCalls = 0
    /\ userErr = NoError
    /\ user = NilUser
    /\ data = ZeroData
    /\ cookies = <<>>
    /\ query = EmptyStr
    /\ queries = <<>>
    /\ status = 0
    /\ body = <<>>
    /\ errlog = <<>>

QueryIdle ==
    /\ searchCursor = NilCursor
    /\ prs = <<>>
    /\ totalCost = 0
    /\ remaining = 0
    /\ requests = <<>>
    /\ pages = <<>>
    /\ ret = NoReturn
    /\ infolog = <<>>

BuilderIdle ==
    /\ blogin = EmptyStr
    /\ bquery = EmptyStr
    /\ builds = <<>>
    /\ constrained = <<>>

\* a request arrives at the handler HandlePrStatus returned
Init ==
    /\ repos \in RepoConfigs
    /\ req \in Requests
    /\ session \in Sessions
    /\ pc = "start"
    /\ HandlerIdle
    /\ qpc = "idle"
    /\ qquery = EmptyStr
    /\ QueryIdle
    /\ BuilderIdle

Next ==
    \/ GetSession
    \/ SkipValidation
    \/ GetUser
    \/ InvalidateTokenSession
    \/ InvalidateLoginCookie
    \/ GetUserError
    \/ NoUser
    \/ SaveLogin
    \/ ConstructQuery
    \/ Search
    \/ WriteResponse

Spec == Init /\ [][Next]_vars

\* DashboardAgent.QueryPullRequests is called
InitQuery ==
    /\ repos = <<>>
    /\ req = [query |-> EmptyStr, var |-> EmptyStr, parseFormOK |-> TRUE]
    /\ session = [tokenOk |-> FALSE, tokenValid |-> FALSE, MaxAge |-> 0,
                  hasLogin |-> FALSE, login |-> EmptyStr]
    /\ pc = "idle"
    /\ HandlerIdle
    /\ qpc = "start"
    /\ qquery \in QueryArgs
    /\ QueryIdle
    /\ BuilderIdle

NextQuery ==
    \/ QueryStart
    \/ SendQuery
    \/ QueryFailed
    \/ ReceivePage
    \/ QueryReturn

SpecQuery == InitQuery /\ [][NextQuery]_vars

\* the logins ConstructSearchQuery is called with
BuilderLogins == Logins \cup {<<"a", "-", "b">>}

\* the strings queryConstrainsRepos is called with
BuilderQueries ==
    QueryParams
    \cup { StrOrg,
           Space \o StrRepo \o <<"x">>,
           StrIsPr \o <<"\n">> \o StrOrg \o <<"k">>,
           StrAuthor \o StrOrg \o <<"k">>,
           StrIsPr \o Space \o StrAuthor \o <<"k">> \o Space \o StrRepo \o Quote \o RepoAB \o Quote }

\* a call of DashboardAgent.ConstructSearchQuery (lines 287-293)
CallConstructSearchQuery ==
    /\ Len(builds) < MaxCalls
    /\ builds' = Append(builds, ConstructSearchQuery(blogin))
    /\ UNCHANGED <<blogin, bquery, constrained>>
    /\ UNCHANGED <<hvars, qvars>>

\* a call of queryConstrainsRepos (lines 295-303)
CallQueryConstrainsRepos ==
    /\ Len(constrained) < MaxCalls
    /\ constrained' = Append(constrained, queryConstrainsRepos(bquery))
    /\ UNCHANGED <<blogin, bquery, builds>>
    /\ UNCHANGED <<hvars, qvars>>

\* a DashboardAgent with its repos, and the arguments of the calls
InitBuilder ==
    /\ repos \in RepoConfigs
    /\ req = [query |-> EmptyStr, var |-> EmptyStr, parseFormOK |-> TRUE]
    /\ session = [tokenOk |-> FALSE, tokenValid |-> FALSE, MaxAge |-> 0,
                  hasLogin |-> FALSE, login |-> EmptyStr]
    /\ pc = "idle"
    /\ HandlerIdle
    /\ qpc = "idle"
    /\ qquery = EmptyStr
    /\ QueryIdle
    /\ blogin \in BuilderLogins
    /\ bquery \in BuilderQueries
    /\ builds = <<>>
    /\ constrained = <<>>

NextBuilder ==
    \/ CallConstructSearchQuery
    \/ CallQueryConstrainsRepos

SpecBuilder == InitBuilder /\ [][NextBuilder]_vars

(***************************************************************************)
(* Properties of the handler (specification Spec)                          *)
(***************************************************************************)
\* the UserData values written to the response body
Serialized == {body[i].bytes.json : i \in {j \in 1..Len(body) : ~body[j].bytes.isNil}}

ErrorWritten == \E i \in 1..Len(body) : body[i].kind = "error"

SuccessWritten == \E i \in 1..Len(body) : body[i].kind # "error"

AllSavesSucceeded == \A i \in 1..Len(saveResults) : saveResults[i]

\* C1: the UserData the handler holds or writes never has pull requests while
\* its Login is false
C1_PullRequestsOnlyWhenLoggedIn ==
    /\ (data.PullRequests # <<>> => data.Login)
    /\ \A d \in Serialized : d.PullRequests # <<>> => d.Login

C1_Witness ==
    /\ pc = "done"
    /\ data.Login
    /\ data.PullRequests = <<PR2, PR1>>
    /\ data \in Serialized

\* C2: a valid stored token that the remote service refuses, with the session
\* saved successfully: the session is saved with MaxAge -1, the login cookie is
\* expired, no search is made, and the answer is 200 with Login false
C2_RejectedExpiresSessionAndCookie ==
    (/\ pc = "done"
     /\ session0.tokenOk /\ session0.tokenValid
     /\ ~userErr.isNil /\ userErr.auth
     /\ AllSavesSucceeded)
    => /\ session.MaxAge < 0
       /\ saveResults = <<TRUE>>
       /\ saves = <<session>>
       /\ Len(cookies) = 1
       /\ cookies[1].Name = loginSession
       /\ cookies[1].Expires < 0
       /\ cookies[1].MaxAge < 0
       /\ queries = <<>>
       /\ status = 200
       /\ ~ErrorWritten
       /\ Serialized = {ZeroData}

C2_Witness ==
    /\ pc = "done"
    /\ userErr = ErrBadCredentials
    /\ saveResults = <<TRUE>>
    /\ session0.MaxAge = 3600
    /\ session.MaxAge = -1
    /\ cookies = <<ExpiredLoginCookie>>
    /\ status = 200

\* C3: with no token in the session, or one that is not Valid(), the handler
\* calls neither GetUser nor the query handler, sets no cookie, leaves the
\* session as it was without saving it, and answers 200 with Login false
C3_NoCredentialNoRemoteCall ==
    ~(session0.tokenOk /\ session0.tokenValid)
    => /\ getUserCalls = 0
       /\ queries = <<>>
       /\ cookies = <<>>
       /\ saveResults = <<>>
       /\ saves = <<>>
       /\ session = session0
       /\ ((pc = "done" /\ ~getErr)
           => /\ status = 200
              /\ ~ErrorWritten
              /\ Serialized = {ZeroData})

C3_Witness ==
    /\ pc = "done"
    /\ ~getErr
    /\ session0.tokenOk
    /\ ~session0.tokenValid
    /\ session0.hasLogin
    /\ status = 200

\* C4: GetUser failing for a reason other than a refused credential: the answer
\* is a server error, the session is as it was and was not saved, no cookie is
\* set and no search is made
C4_TransientErrorLeavesSession ==
    (/\ pc = "done"
     /\ ~userErr.isNil
     /\ ~userErr.auth)
    => /\ status = 500
       /\ session = session0
       /\ saveResults = <<>>
       /\ cookies = <<>>
       /\ queries = <<>>

\* C5, as stated: when the query handler fails the answer is a server error and
\* the session was neither modified nor saved in the request
C5_SearchFailureSessionUntouched ==
    (pc = "done" /\ searchErr)
    => /\ status = 500
       /\ session = session0
       /\ saveResults = <<>>

\* C5, amended: when the query handler fails the answer is a server error and
\* the session is not invalidated: its MaxAge and token are as they were, and
\* its one change is the verified login, stored and saved once before the search
C5_SearchFailureSessionNotInvalidated ==
    (pc = "done" /\ searchErr)
    => /\ status = 500
       /\ ErrorWritten
       /\ ~SuccessWritten
       /\ session.MaxAge = session0.MaxAge
       /\ session.tokenOk = session0.tokenOk
       /\ session.tokenValid = session0.tokenValid
       /\ session.hasLogin
       /\ session.login = user.Login
       /\ saveResults = <<TRUE>>
       /\ saves = <<session>>
       /\ Len(queries) = 1

C5_Witness ==
    /\ pc = "done"
    /\ searchErr
    /\ status = 500
    /\ session0.hasLogin
    /\ session.login = LoginK
    /\ session # session0

\* C6: GetUser failed, the handler took the invalidation branch and saving the
\* expired session failed: the answer is a server error, the login cookie is
\* neither expired nor set, and no success body is written
C6_FailedInvalidationSetsNoCookie ==
    (/\ ~userErr.isNil
     /\ \E i \in 1..Len(saveResults) : ~saveResults[i])
    => /\ pc = "done"
       /\ status = 500
       /\ ErrorWritten
       /\ ~SuccessWritten
       /\ cookies = <<>>
       /\ queries = <<>>

C6_Witness ==
    /\ pc = "done"
    /\ userErr = ErrBadCredentials
    /\ saveResults = <<FALSE>>
    /\ session.MaxAge = -1
    /\ saves = <<>>
    /\ status = 500

\* C7: once GetUser returned a user and the handler went on to line 216, the
\* login cookie carries that login (30 days, secure, path /) and the session
\* holds it; a successful save persisted it, a failed save ended the request
\* with a server error and no search
C7_ValidLoginCookieAndSession ==
    (~user.isNil /\ saveResults # <<>>)
    => /\ Len(cookies) = 1
       /\ cookies[1].Name = loginSession
       /\ cookies[1].Value = user.Login
       /\ cookies[1].Path = "/"
       /\ cookies[1].Expires = 24 * 30
       /\ cookies[1].Secure
       /\ session.hasLogin
       /\ session.login = user.Login
       /\ Len(saveResults) = 1
       /\ (saveResults[1]
           => /\ Len(saves) = 1
              /\ saves[1].hasLogin
              /\ saves[1].login = user.Login)
       /\ (~saveResults[1]
           => /\ pc = "done"
              /\ status = 500
              /\ ~SuccessWritten
              /\ saves = <<>>
              /\ queries = <<>>)

C7_Witness ==
    /\ pc = "done"
    /\ user.Login = LoginK
    /\ session0.login = LoginO
    /\ saveResults = <<FALSE>>
    /\ cookies = <<LoginCookie(LoginK)>>
    /\ status = 500

C7_WitnessSaved ==
    /\ pc = "search"
    /\ user.Login = LoginK
    /\ session0.login = LoginO
    /\ saves = <<session>>
    /\ session.login = LoginK

\* the query the claim C10 expects for an override: the override itself when it
\* names an org or a repo, else the override followed by the configured repo tokens
C10_ScopedOverride(q) ==
    IF queryConstrainsRepos(q) THEN q ELSE Join(<<q>> \o RepoTokens(repos), Space)

\* C10, as stated: the query passed to the query handler is the built query when
\* the request has no non-empty query parameter, and else the override, with the
\* repo tokens appended iff queryConstrainsRepos is false on it
C10_OverrideWheneverGiven ==
    queries # <<>>
    => queries[1] = (IF req.query = EmptyStr
                     THEN ConstructSearchQuery(user.Login)
                     ELSE C10_ScopedOverride(req.query))

\* C10, amended: the built query is passed also when ParseForm fails, whatever
\* query parameter the request carries; the override is used when the form
\* parses and the parameter is not empty
C10_OverrideWhenFormParses ==
    queries # <<>>
    => /\ Len(queries) = 1
       /\ queries[1] = (IF req.parseFormOK /\ req.query # EmptyStr
                        THEN C10_ScopedOverride(req.query)
                        ELSE ConstructSearchQuery(user.Login))

C10_Witness ==
    /\ repos = <<RepoAB, RepoCD>>
    /\ req.parseFormOK
    /\ req.query = StrIsPr
    /\ queries = <<StrIsPr \o Space \o RepoToken(RepoAB) \o Space \o RepoToken(RepoCD)>>

C10_WitnessDefault ==
    /\ repos = <<RepoAB>>
    /\ ~req.parseFormOK
    /\ req.query = StrIsPr
    /\ user.Login = LoginK
    /\ queries = <<StrIsPr \o Space \o StrStateOpen \o Space \o StrAuthor \o LoginK
                   \o Space \o RepoToken(RepoAB)>>

(***************************************************************************)
(* Properties of the paginator (specification SpecQuery)                   *)
(***************************************************************************)
RECURSIVE ConcatNodes(_)
ConcatNodes(ps) ==
    IF Len(ps) = 0 THEN <<>> ELSE Head(ps).Nodes \o ConcatNodes(Tail(ps))

\* C8: a call that returns without error made exactly as many requests as it
\* received pages, the last page is the first one without a next page, and the
\* result is the pages' pull requests concatenated in order
C8_ReturnsAllPagesInOrder ==
    (qpc = "returned" /\ ~ret.failed)
    => /\ Len(pages) >= 1
       /\ Len(requests) = Len(pages)
       /\ ~pages[Len(pages)].HasNextPage
       /\ \A i \in 1..(Len(pages) - 1) : pages[i].HasNextPage
       /\ ret.prs = ConcatNodes(pages)

C8_Witness ==
    /\ qpc = "returned"
    /\ ~ret.failed
    /\ Len(requests) = 3
    /\ ret.prs = <<PR1, PR2, PR3, PR1>>

\* C9: a call whose request failed returns the error with no pull requests,
\* whatever the pages before delivered, and the failed request is its last one
C9_FailureReturnsNothing ==
    (qpc = "returned" /\ ret.failed)
    => /\ ret.prs = <<>>
       /\ Len(requests) = Len(pages) + 1
       /\ \A i \in 1..Len(pages) : pages[i].HasNextPage
       /\ ~ENABLED SendQuery

C9_Witness ==
    /\ qpc = "returned"
    /\ ret.failed
    /\ Len(pages) = 2
    /\ prs = <<PR2, PR3, PR1>>
    /\ ret.prs = <<>>

(***************************************************************************)
(* Response, ordering and scope properties of the handler (Spec)           *)
(***************************************************************************)
\* C18: when json.Marshal fails (a pull request carries a value it cannot
\* encode) no byte is written to the response body, with or without var
C18_MarshalFailureWritesNothing ==
    (/\ pc = "done"
     /\ \E i \in 1..Len(data.PullRequests) : ~data.PullRequests[i].IDEncodable)
    => \A i \in 1..Len(body) : body[i].kind = "bytes" /\ body[i].bytes.isNil

C19_Ordered ==
    /\ Len(queries) <= 1
    /\ (queries # <<>>
        => /\ getUserCalls = 1
           /\ ~user.isNil
           /\ userErr.isNil
           /\ saveResults = <<TRUE>>
           /\ Len(saves) = 1
           /\ saves[1].hasLogin
           /\ saves[1].login = user.Login)
    /\ (ErrorWritten
        => /\ pc = "done"
           /\ Len(body) = 1
           /\ ~SuccessWritten)

\* C19: the search is made at most once, and only after GetUser returned a user
\* and the session carrying that login was saved; once a server error is
\* written no remote call, cookie, session operation or body write follows
C19_StepsInOrder ==
    /\ []C19_Ordered
    /\ [][ErrorWritten => UNCHANGED <<getUserCalls, queries, cookies, session, saves,
                                      saveResults, body, status>>]_vars

C19_Witness ==
    /\ pc = "done"
    /\ status = 500
    /\ searchErr
    /\ Len(queries) = 1
    /\ getUserCalls = 1
    /\ saves = <<session>>
    /\ Len(cookies) = 1

\* the tokens of the query passed to the query handler, cut at every space
C20_Tokens == Split(queries[1], " ")

\* C20: with a non-empty da.repos the query passed to the query handler always
\* has a token that starts with org: or repo:, and the built query, when it is
\* the one passed, has each configured repo:"<id>" token exactly once
C20_SearchIsAlwaysScoped ==
    (Len(repos) > 0 /\ queries # <<>>)
    => /\ \E j \in 1..Len(C20_Tokens) :
              \/ HasPrefix(C20_Tokens[j], <<"o", "r", "g", ":">>)
              \/ HasPrefix(C20_Tokens[j], <<"r", "e", "p", "o", ":">>)
       /\ (~(req.parseFormOK /\ req.query # EmptyStr)
           => \A i \in 1..Len(repos) :
                  Cardinality({j \in 1..Len(C20_Tokens) :
                                  C20_Tokens[j] = <<"r", "e", "p", "o", ":", "\"">>
                                                  \o repos[i] \o <<"\"">>}) = 1)

C20_Witness ==
    /\ repos = <<RepoAB, RepoCD>>
    /\ req.parseFormOK
    /\ req.query = StrIsPr \o <<"\t">> \o StrRepo \o <<"x">>
    /\ queries = <<req.query \o Space \o RepoToken(RepoAB) \o Space \o RepoToken(RepoCD)>>

(***************************************************************************)
(* Properties of the query builder (specification SpecBuilder)             *)
(***************************************************************************)
\* "is:pr state:open author:<login>"
C11_Base(login) ==
    <<"i", "s", ":", "p", "r", " ", "s", "t", "a", "t", "e", ":", "o", "p", "e", "n", " ",
      "a", "u", "t", "h", "o", "r", ":">> \o login

RECURSIVE C11_WithRepos(_, _)
\* q followed by  repo:"<id>"  for each id of rs, in order
C11_WithRepos(q, rs) ==
    IF Len(rs) = 0 THEN q
    ELSE C11_WithRepos(q \o <<" ", "r", "e", "p", "o", ":", "\"">> \o Head(rs) \o <<"\"">>,
                       Tail(rs))

\* C11: every call of ConstructSearchQuery(login) returns the base query
\* followed by one repo:"<id>" token per configured repository in the
\* configured order, so that repeated calls return the same string
C11_BuiltQueryIsBasePlusRepos ==
    \A i \in 1..Len(builds) : builds[i] = C11_WithRepos(C11_Base(blogin), repos)

C11_Witness ==
    /\ Len(builds) = 2
    /\ repos = <<RepoAB, RepoCD>>
    /\ blogin = <<"a", "-", "b">>
    /\ builds[1] = builds[2]
    /\ Len(builds[1]) = 49

RECURSIVE C12_Fields(_, _)
\* the tokens of s when every space, tab and newline separates (cur is the token
\* being read)
C12_Fields(s, cur) ==
    LET done == IF Len(cur) = 0 THEN <<>> ELSE <<cur>> IN
    IF Len(s) = 0 THEN done
    ELSE IF Head(s) \in {" ", "\t", "\n"} THEN done \o C12_Fields(Tail(s), <<>>)
    ELSE C12_Fields(Tail(s), Append(cur, Head(s)))

\* C12: queryConstrainsRepos(q) is true iff one of the whitespace-separated
\* tokens of q starts with org: or repo:, tabs and newlines separating as
\* spaces do
C12_TokenizesOnWhitespace ==
    \A i \in 1..Len(constrained) :
        constrained[i] = (LET tkns == C12_Fields(bquery, <<>>) IN
                          \E j \in 1..Len(tkns) :
                              HasPrefix(tkns[j], StrOrg) \/ HasPrefix(tkns[j], StrRepo))

(***************************************************************************)
(* Further properties of the handler (specification Spec)                  *)
(***************************************************************************)
SaveFailed == \E i \in 1..Len(saveResults) : ~saveResults[i]

\* C13: once the handler has acted on a GetUser failure, it took the
\* invalidation branch (and so saved the session) iff the remote service
\* refused the credential; any other failure, whatever its text, is answered
\* with a server error
C13_InvalidatesOnlyOnAuthFailure ==
    (~userErr.isNil /\ pc # "failed")
    => /\ (saveResults # <<>> <=> userErr.auth)
       /\ (~userErr.auth => status = 500 /\ session = session0)

\* C14: a session-store failure or a transient remote failure ends with status
\* 500 and one message that names the failed action and carries nothing of the
\* error's own text
C14_ServerErrorWithoutDetails ==
    (/\ pc = "done"
     /\ \/ getErr
        \/ SaveFailed
        \/ searchErr
        \/ (~userErr.isNil /\ ~userErr.auth))
    => /\ status = 500
       /\ Len(body) = 1
       /\ body[1].kind = "error"
       /\ body[1].action # ""
       /\ body[1].arg = EmptyStr

(***************************************************************************)
(* Further properties of the paginator (specification SpecQuery)           *)
(***************************************************************************)
\* C15: every request carries the call's query; the first carries a nil cursor
\* and each later one the EndCursor of the page received just before it; a
\* request is sent only when every earlier one has been answered
C15_CursorChain ==
    /\ \A i \in 1..Len(requests) : requests[i].query = qquery
    /\ (Len(requests) >= 1 => requests[1].searchCursor = [isNil |-> TRUE, val |-> <<>>])
    /\ Len(requests) - Len(pages) \in {0, 1}
    /\ \A i \in 2..Len(requests) :
           requests[i].searchCursor = [isNil |-> FALSE, val |-> pages[i - 1].EndCursor]
    /\ (qpc = "loop" => Len(requests) = Len(pages))
    /\ (qpc = "await" => Len(requests) = Len(pages) + 1)

C15_Witness ==
    /\ Len(requests) = 3
    /\ qpc = "await"
    /\ pages[1].EndCursor = <<"Y">>
    /\ pages[2].EndCursor = <<"Z">>
    /\ requests[2].searchCursor.val = <<"Y">>
    /\ requests[3].searchCursor.val = <<"Z">>

AllHaveNextPage == \A i \in 1..Len(pages) : pages[i].HasNextPage

\* C16: the call is past its loop exactly when the last response was a failure
\* or the first page without a next page; after a page with a next page it is
\* back at the head of the loop, whatever the end cursors were
C16_StopsOnlyOnFailureOrLastPage ==
    /\ ((qpc = "finish" \/ (qpc = "returned" /\ ~ret.failed))
        => /\ Len(pages) >= 1
           /\ ~pages[Len(pages)].HasNextPage
           /\ \A i \in 1..(Len(pages) - 1) : pages[i].HasNextPage)
    /\ ((qpc = "returned" /\ ret.failed)
        => /\ Len(requests) = Len(pages) + 1
           /\ AllHaveNextPage)
    /\ ((Len(pages) >= 1 /\ AllHaveNextPage /\ Len(requests) = Len(pages))
        => qpc = "loop")

C16_Witness ==
    /\ Len(pages) = 3
    /\ AllHaveNextPage
    /\ \A i \in 1..Len(pages) : pages[i].EndCursor = <<"Y">>
    /\ Len(requests) = 3
    /\ qpc = "loop"

RECURSIVE C17_SumCost(_)
C17_SumCost(ps) ==
    IF Len(ps) = 0 THEN 0 ELSE Head(ps).Cost + C17_SumCost(Tail(ps))

\* C17: the info record is written once, after the last page of a call that
\* succeeds and never by one that fails; it carries the sum of the pages' costs
\* and the remaining quota of the last page, and the returned pull requests are
\* the pages' pull requests all the same
C17_LogsTotalCostAndLastRemaining ==
    /\ (infolog # <<>>
        => /\ qpc = "returned"
           /\ ~ret.failed
           /\ Len(infolog) = 1
           /\ infolog[1].query = qquery
           /\ infolog[1].cost = C17_SumCost(pages)
           /\ infolog[1].remaining = pages[Len(pages)].Remaining
           /\ ret.prs = ConcatNodes(pages))
    /\ ((qpc = "returned" /\ ~ret.failed) => Len(infolog) = 1)

C17_Witness ==
    /\ qpc = "returned"
    /\ Len(pages) = 3
    /\ pages[1].Remaining = 5 /\ pages[2].Remaining = 9 /\ pages[3].Remaining = 5
    /\ pages[1].Cost = 1 /\ pages[2].Cost = 2 /\ pages[3].Cost = 2
    /\ infolog = <<[query |-> qquery, cost |-> 5, remaining |-> 5]>>

====
